---------------------------- MODULE Spec2Model ----------------------------
(***************************************************************************)
(* A model of src/src/index.ts: the in-memory EmbeddingIndex (add, update, *)
(* remove, removeBatch, get, search), the DynamicDB wrapper around the     *)
(* IndexedDB engine, and the save/load bridge between the two.             *)
(*                                                                         *)
(* Five specifications share the variables:                               *)
(*   Spec        the synchronous index operations;                         *)
(*   SpecSearch  search on an index built by the constructor;              *)
(*   SpecBridge  saveIndexToDB / loadIndexFromDB driving the index's own   *)
(*               DynamicDB and the engine's event loop;                    *)
(*   SpecIndex   the synchronous operations together with save and load;   *)
(*   SpecStore   a DynamicDB used directly, with a consumer that pulls     *)
(*               dbGenerator at its own pace.                              *)
(***************************************************************************)
EXTENDS Integers, Sequences, FiniteSets, TLC

(***************************************************************************)
(* Bounds of the model.                                                    *)
(***************************************************************************)
\* the longest record sequence the index is driven to
MaxObjs == 3
\* the longest filter list handed to removeBatch
MaxBatch == 2
\* the largest topK handed to search
MaxTopK == 4

(***************************************************************************)
(* Values.  An object is a record with the two properties the code reads:  *)
(* a scalar `id` (Undef when the object has no such property) and          *)
(* `embedding`; arr is Array.isArray(obj.embedding).  NaN stands for the   *)
(* one number isNaN accepts.  gen tells objects apart that hold the same   *)
(* values: 0 for an object the caller made, n for one the n-th             *)
(* loadIndexFromDB read out of the store (a structured clone).             *)
(***************************************************************************)
Undef == "undefined"
NaN == -1000
Ids == {"a", "b"}
ValidEmbs == {<<1, 0>>, <<3, 4>>}
BadEmbs == {<<NaN, 0>>}

ValidObjs == [id : Ids \cup {Undef}, arr : {TRUE}, embedding : ValidEmbs, gen : {0}]
AllObjs == ValidObjs
             \cup [id : Ids \cup {Undef}, arr : {TRUE}, embedding : BadEmbs, gen : {0}]
             \cup [id : Ids \cup {Undef}, arr : {FALSE}, embedding : {<<>>}, gen : {0}]

\* what get returns when nothing matches (line 151)
Null == [id |-> "null", arr |-> FALSE, embedding |-> <<>>, gen |-> 0]

\* Object.keys(obj)
ObjectKeys(obj) ==
  (IF obj.id # Undef THEN {"id"} ELSE {}) \cup (IF obj.arr THEN {"embedding"} ELSE {})

\* key in obj
HasKey(obj, key) == key \in ObjectKeys(obj)

(***************************************************************************)
(* Filters: a filter is a partial map from property names to values; NoKey *)
(* marks a property the filter does not name.                              *)
(***************************************************************************)
NoKey == "nokey"
Filters == [id : Ids \cup {NoKey}]
FilterKeys(filter) == {k \in {"id"} : filter[k] # NoKey}

\* Object.keys(filter).every((key) => object[key] === filter[key])
Matches(object, filter) == \A key \in FilterKeys(filter) : object[key] = filter[key]

\* this.objects.findIndex(...): the first matching position, 0 for -1
findIndex(objs, filter) ==
  IF \E i \in 1..Len(objs) : Matches(objs[i], filter)
  THEN CHOOSE i \in 1..Len(objs) :
         /\ Matches(objs[i], filter)
         /\ \A j \in 1..(i - 1) : ~Matches(objs[j], filter)
  ELSE 0

\* this.objects.splice(index, 1)
splice(objs, index) == [i \in 1..(Len(objs) - 1) |-> IF i < index THEN objs[i] ELSE objs[i + 1]]

(***************************************************************************)
(* The state.                                                              *)
(***************************************************************************)
VARIABLES
  objects,       \* EmbeddingIndex.objects
  keys,          \* EmbeddingIndex.keys, as a set
  last,          \* the latest synchronous call on the index and its result
  db,            \* DynamicDB.db: no connection, or the connection it points to
  objectStores,  \* DynamicDB.objectStores, as the set of its keys
  version,       \* DynamicDB.version
  engVersion,    \* the engine's database: its version (0: no database yet),
  engNames,      \*   the names of its object stores,
  engRecs,       \*   and each store's records in key order
  queue,         \* the requests handed to the engine, oldest first
  adds,          \* the promises addToDB returned, in call order
  bridge,        \* the latest saveIndexToDB / loadIndexFromDB call
  dcall,         \* the latest direct initializeDB / makeObjectStore call
  gen,           \* the dbGenerator in use
  received,      \* what a direct consumer of dbGenerator was handed so far
  failures       \* how many requests the engine has failed

idxVars == <<objects, keys>>
dbVars == <<db, objectStores, version, engVersion, engNames, engRecs, queue, adds,
            bridge, dcall, gen, received, failures>>
vars == <<objects, keys, last, db, objectStores, version, engVersion, engNames,
          engRecs, queue, adds, bridge, dcall, gen, received, failures>>

\* A call record: the operation, how it ended ("ok" or the error it threw),
\* its argument and its return value.  A get also records, in `after`, the
\* call that came right before it; a removeBatch records, in `before`, the
\* number of records the index held when it was called.
NoArg == <<>>
NoCall == [op |-> "none", outcome |-> "ok", arg |-> NoArg, ret |-> NoArg]
Call(op, outcome, arg, ret) == [op |-> op, outcome |-> outcome, arg |-> arg, ret |-> ret]

(***************************************************************************)
(* DynamicDB and the engine behind it (lines 220-223, 8-11).               *)
(*                                                                         *)
(* this.db is null or points to a connection; a connection is open, is     *)
(* closed (close() was called on it, or its upgrade aborted), or is in its *)
(* versionchange transaction ("upgrading": between onupgradeneeded and     *)
(* onsuccess).  The engine serves its requests one at a time, oldest       *)
(* first: every addToDB and dbGenerator makes a transaction of its own, a  *)
(* connection closes once its transactions are done, and an upgrading open *)
(* waits for the close.                                                    *)
(***************************************************************************)
Names == {"A", "B"}
NoName == ""
NoDb == [st |-> "null", ver |-> 0]
Conn(st, ver) == [st |-> st, ver |-> ver]

\* the value a structured clone stores: the properties, not the object
Plain(obj) == [obj EXCEPT !.gen = 0]

Req(kind, owner, name, ver, rec, id) ==
  [kind |-> kind, owner |-> owner, name |-> name, ver |-> ver, phase |-> "new",
   prev |-> 0, created |-> FALSE, rec |-> rec, id |-> id, pos |-> 1]
\* indexedDB.open(name, version)
OpenReq(owner, name, ver) == Req("open", owner, name, ver, Null, 0)
\* objectStore.add(obj)
AddReq(name, obj, id) == Req("add", "addToDB", name, 0, Plain(obj), id)
\* objectStore.openCursor()
CursorReq(name) == Req("cursor", "dbGenerator", name, 0, Null, 0)

NoBridge ==
  [op |-> "none", st |-> "idle", err |-> "", name |-> NoName, saves |-> 0, loads |-> 0,
   fresh |-> FALSE, mem |-> <<>>, pend |-> 0, prev |-> <<>>]
\* a direct call records the collection it names, whether the database had
\* that collection when the call was made, and version as the call found it
NoDCall ==
  [op |-> "none", st |-> "idle", err |-> "", name |-> NoName, existed |-> FALSE,
   was |-> 0, live |-> FALSE]
DCall(op, st, err, name) ==
  [op |-> op, st |-> st, err |-> err, name |-> name, existed |-> name \in engNames,
   was |-> version, live |-> db.st = "open"]
NoGen == [st |-> "none", consumer |-> "none", name |-> NoName, err |-> ""]

InitDB ==
  /\ db = NoDb
  /\ objectStores = {}
  /\ version = 1
  /\ engVersion = 0
  /\ engNames = {}
  /\ engRecs = [n \in Names |-> <<>>]
  /\ queue = <<>>
  /\ adds = <<>>
  /\ bridge = NoBridge
  /\ dcall = NoDCall
  /\ gen = NoGen
  /\ received = <<>>
  /\ failures = 0

(***************************************************************************)
(* validateAndAdd (lines 82-96): the outcome, and the objects and keys it  *)
(* leaves.                                                                 *)
(***************************************************************************)
\* an isNaN that finds no NaN
isNaNNever(x) == FALSE

isNaN(x) == x = NaN

\* a validateAndAdd that wants the object's properties to be exactly the keys
validateAndAddExact(objs, ks, obj) ==
  IF ~obj.arr \/ (\E i \in 1..Len(obj.embedding) : isNaN(obj.embedding[i]))
  THEN [outcome |-> "InvalidEmbedding", objects |-> objs, keys |-> ks]
  ELSE IF ks = {}
  THEN [outcome |-> "ok", objects |-> Append(objs, obj), keys |-> ObjectKeys(obj)]
  ELSE IF ObjectKeys(obj) # ks
  THEN [outcome |-> "SchemaMismatch", objects |-> objs, keys |-> ks]
  ELSE [outcome |-> "ok", objects |-> Append(objs, obj), keys |-> ks]

validateAndAdd(objs, ks, obj) ==
  IF ~obj.arr \/ (\E i \in 1..Len(obj.embedding) : isNaN(obj.embedding[i]))
  THEN [outcome |-> "InvalidEmbedding", objects |-> objs, keys |-> ks]
  ELSE IF ks = {}
  THEN [outcome |-> "ok", objects |-> Append(objs, obj), keys |-> ObjectKeys(obj)]
  ELSE IF ~(\A key \in ks : HasKey(obj, key))
  THEN [outcome |-> "SchemaMismatch", objects |-> objs, keys |-> ks]
  ELSE [outcome |-> "ok", objects |-> Append(objs, obj), keys |-> ks]

(***************************************************************************)
(* The constructor (lines 71-80): validateAndAdd on each initial object,   *)
(* then keys from the first one.  A throw leaves no index.                 *)
(***************************************************************************)
RECURSIVE addAll(_, _, _)
addAll(objs, ks, initialObjects) ==
  IF initialObjects = <<>>
  THEN [outcome |-> "ok", objects |-> objs, keys |-> ks]
  ELSE LET r == validateAndAdd(objs, ks, Head(initialObjects))
       IN IF r.outcome # "ok" THEN r ELSE addAll(r.objects, r.keys, Tail(initialObjects))

constructor(initialObjects) ==
  LET r == addAll(<<>>, {}, initialObjects)
  IN IF r.outcome = "ok" /\ Len(initialObjects) > 0
     THEN [r EXCEPT !.keys = ObjectKeys(initialObjects[1])]
     ELSE r

\* the sequences over S of length at most n
SeqsUpTo(S, n) == UNION {[1..k -> S] : k \in 0..n}

(***************************************************************************)
(* add (lines 98-100)                                                      *)
(***************************************************************************)
add(obj) ==
  LET r == validateAndAdd(objects, keys, obj)
  IN /\ Len(objects) < MaxObjs
     /\ objects' = r.objects
     /\ keys' = r.keys
     /\ last' = Call("add", r.outcome, obj, NoArg)
     /\ UNCHANGED dbVars

(***************************************************************************)
(* update (lines 103-115): validateAndAdd pushes the new vector, then the  *)
(* matched position is overwritten with it.                                *)
(***************************************************************************)
\* an update that overwrites the matched position before it validates
updateResultEarly(objs, ks, filter, vector) ==
  LET index == findIndex(objs, filter)
      written == IF index = 0 THEN objs ELSE [objs EXCEPT ![index] = vector]
      r == validateAndAdd(written, ks, vector)
  IN IF index = 0
     THEN [outcome |-> "NotFound", objects |-> objs, keys |-> ks]
     ELSE r

updateResult(objs, ks, filter, vector) ==
  LET index == findIndex(objs, filter)
      r == validateAndAdd(objs, ks, vector)
  IN IF index = 0
     THEN [outcome |-> "NotFound", objects |-> objs, keys |-> ks]
     ELSE IF r.outcome # "ok"
     THEN r
     ELSE [r EXCEPT !.objects = [r.objects EXCEPT ![index] = vector]]

update(filter, vector) ==
  LET r == updateResult(objects, keys, filter, vector)
  IN /\ Len(objects) < MaxObjs
     /\ objects' = r.objects
     /\ keys' = r.keys
     /\ last' = Call("update", r.outcome, <<filter, vector>>, NoArg)
     /\ UNCHANGED dbVars

(***************************************************************************)
(* remove (lines 118-128)                                                  *)
(***************************************************************************)
\* a remove that drops every matching record instead of the first
removeResultAll(objs, filter) ==
  IF findIndex(objs, filter) = 0
  THEN [outcome |-> "NotFound", objects |-> objs]
  ELSE [outcome |-> "ok", objects |-> SelectSeq(objs, LAMBDA o : ~Matches(o, filter))]

removeResult(objs, filter) ==
  LET index == findIndex(objs, filter)
  IN IF index = 0
     THEN [outcome |-> "NotFound", objects |-> objs]
     ELSE [outcome |-> "ok", objects |-> splice(objs, index)]

remove(filter) ==
  LET r == removeResult(objects, filter)
  IN /\ objects' = r.objects
     /\ keys' = keys
     /\ last' = Call("remove", r.outcome, filter, NoArg)
     /\ UNCHANGED dbVars

(***************************************************************************)
(* removeBatch (lines 131-142): forEach over the filters.                  *)
(***************************************************************************)
\* a removeBatch that looks every filter up in the sequence as it was at the call
removeBatchResultStale(objs, filters) ==
  LET hit == {findIndex(objs, filters[k]) : k \in 1..Len(filters)} \ {0}
      keep == {i \in 1..Len(objs) : i \notin hit}
      nth(k) == CHOOSE i \in keep : Cardinality({j \in keep : j < i}) = k - 1
  IN [k \in 1..Cardinality(keep) |-> objs[nth(k)]]

RECURSIVE removeBatchResult(_, _)
removeBatchResult(objs, filters) ==
  IF filters = <<>>
  THEN objs
  ELSE LET index == findIndex(objs, Head(filters))
       IN removeBatchResult(IF index # 0 THEN splice(objs, index) ELSE objs, Tail(filters))

removeBatch(filters) ==
  /\ objects' = removeBatchResult(objects, filters)
  /\ keys' = keys
  /\ last' = [op |-> "removeBatch", outcome |-> "ok", arg |-> filters, ret |-> NoArg,
              before |-> Len(objects)]
  /\ UNCHANGED dbVars

(***************************************************************************)
(* get (lines 145-155): the first matching object, or null.                *)
(***************************************************************************)
\* a get that returns the last matching object instead of the first
getResultLast(objs, filter) ==
  LET M == {i \in 1..Len(objs) : Matches(objs[i], filter)}
  IN IF M = {} THEN Null ELSE objs[CHOOSE i \in M : \A j \in M : j <= i]

getResult(objs, filter) ==
  LET index == findIndex(objs, filter)
  IN IF index = 0 THEN Null ELSE objs[index]

get(filter) ==
  /\ UNCHANGED idxVars
  /\ last' = [op |-> "get", outcome |-> "ok", arg |-> filter,
              ret |-> getResult(objects, filter),
              after |-> [op |-> last.op, outcome |-> last.outcome, arg |-> last.arg]]
  /\ UNCHANGED dbVars

(***************************************************************************)
(* The synchronous index operations.                                       *)
(***************************************************************************)
Init ==
  /\ objects = <<>>
  /\ keys = {}
  /\ last = NoCall
  /\ InitDB

Next ==
  \/ \E obj \in AllObjs : add(obj)
  \/ \E filter \in Filters, vector \in AllObjs : update(filter, vector)
  \/ \E filter \in Filters : remove(filter)
  \/ \E filters \in SeqsUpTo(Filters, MaxBatch) : removeBatch(filters)
  \/ \E filter \in Filters : get(filter)

Spec == Init /\ [][Next]_vars

(***************************************************************************)
(* cosineSimilarity (lines 37-64).  The result is kept as an integer       *)
(* number of 10^-precision units, which is what toFixed(precision) leaves. *)
(* Sqrt is exact on the model's vectors, whose norms are integers, so the  *)
(* quotient is a rational the rounding is computed on exactly.             *)
(***************************************************************************)
precision == 6

RECURSIVE Pow10(_)
Pow10(n) == IF n = 0 THEN 1 ELSE 10 * Pow10(n - 1)

RECURSIVE Sum(_)
Sum(s) == IF s = <<>> THEN 0 ELSE Head(s) + Sum(Tail(s))

\* Math.sqrt, on perfect squares
Sqrt(n) == CHOOSE r \in 0..n : r * r <= n /\ n < (r + 1) * (r + 1)

Abs(x) == IF x < 0 THEN 0 - x ELSE x

\* parseFloat((num / den).toFixed(precision)) for den > 0, in 10^-precision
\* units: the nearest such number, a tie going away from zero
toFixed(num, den) ==
  LET n == (2 * Abs(num) * Pow10(precision) + den) \div (2 * den)
  IN IF num < 0 THEN 0 - n ELSE n

cosineSimilarity(vecA, vecB) ==
  LET dotProduct == Sum([i \in 1..Len(vecA) |-> vecA[i] * vecB[i]])
      magnitudeA == Sqrt(Sum([i \in 1..Len(vecA) |-> vecA[i] * vecA[i]]))
      magnitudeB == Sqrt(Sum([i \in 1..Len(vecB) |-> vecB[i] * vecB[i]]))
  IN IF magnitudeA = 0 \/ magnitudeB = 0
     THEN 0
     ELSE toFixed(dotProduct, magnitudeA * magnitudeB)

(***************************************************************************)
(* search (lines 157-178).  options.topK is either not given or a number;  *)
(* options.filter not given is the empty filter.                           *)
(***************************************************************************)
DefaultTopK == 3
Queries == {<<1, 0>>, <<0, 1>>, <<0, 0>>, <<1>>}
Options ==
  [given : {FALSE}, topK : {0}, filter : Filters]
    \cup [given : {TRUE}, topK : 0..MaxTopK, filter : Filters]

\* const topK = options.topK || 3
topKOf(options) ==
  IF options.given /\ options.topK # 0 THEN options.topK ELSE DefaultTopK

\* Array.prototype.sort with (a, b) => b.similarity - a.similarity: stable,
\* so an entry goes behind every entry whose similarity is not smaller
insertDesc(sorted, e) ==
  LET k == Cardinality({i \in 1..Len(sorted) : sorted[i].similarity >= e.similarity})
  IN SubSeq(sorted, 1, k) \o <<e>> \o SubSeq(sorted, k + 1, Len(sorted))

RECURSIVE sortDesc(_)
sortDesc(s) ==
  IF s = <<>>
  THEN <<>>
  ELSE insertDesc(sortDesc(SubSeq(s, 1, Len(s) - 1)), s[Len(s)])

\* slice(0, n)
slice(s, n) == SubSeq(s, 1, IF n < Len(s) THEN n ELSE Len(s))

searchResult(objs, queryEmbedding, options) ==
  LET survivors == SelectSeq(objs, LAMBDA o : Matches(o, options.filter))
      similarities ==
        [i \in 1..Len(survivors) |->
           [similarity |-> cosineSimilarity(queryEmbedding, survivors[i].embedding),
            object |-> survivors[i]]]
  IN IF \E i \in 1..Len(survivors) : Len(survivors[i].embedding) # Len(queryEmbedding)
     THEN [outcome |-> "LengthMismatch", ret |-> NoArg]
     ELSE [outcome |-> "ok", ret |-> slice(sortDesc(similarities), topKOf(options))]

search(queryEmbedding, options) ==
  LET r == searchResult(objects, queryEmbedding, options)
  IN /\ UNCHANGED idxVars
     /\ last' = Call("search", r.outcome, [q |-> queryEmbedding, options |-> options], r.ret)
     /\ UNCHANGED dbVars

(***************************************************************************)
(* search on an index built by the constructor.                            *)
(***************************************************************************)
InitSearch ==
  \E initialObjects \in SeqsUpTo(AllObjs, MaxObjs) :
    /\ constructor(initialObjects).outcome = "ok"
    /\ objects = constructor(initialObjects).objects
    /\ keys = constructor(initialObjects).keys
    /\ last = NoCall
    /\ InitDB

NextSearch == \E queryEmbedding \in Queries, options \in Options : search(queryEmbedding, options)

SpecSearch == InitSearch /\ [][NextSearch]_vars

(***************************************************************************)
(* More bounds: calls and engine failures per behaviour.                   *)
(***************************************************************************)
\* saveIndexToDB calls on a non-empty index plus loadIndexFromDB calls
MaxCalls == 3
\* the longest record sequence of an index that is saved
MaxSaved == 2
\* requests the engine fails (an open or upgrade it denies, a write it loses)
MaxFailures == 1

(***************************************************************************)
(* The synchronous part of the DynamicDB methods.  W is the wrapper's      *)
(* state together with the engine's queue and the promises handed out, so  *)
(* that calls made one after the other in one task compose.                *)
(***************************************************************************)
W == [db |-> db, objectStores |-> objectStores, version |-> version,
      queue |-> queue, adds |-> adds]

\* this.db.transaction([name], mode) throws: InvalidStateError on a
\* connection that is closed or upgrading, NotFoundError on an unknown store
transactionThrows(conn, name) == conn.st # "open" \/ name \notin engNames

\* createNewVersion up to its open request (lines 251-258)
createNewVersion(w, name) ==
  [w EXCEPT !.db = IF @.st = "null" THEN @ ELSE Conn("closed", @.ver),
            !.version = @ + 1,
            !.queue = Append(@, OpenReq("createNewVersion", name, w.version + 1))]

\* addToDB up to its add request (lines 293-307); by is the saveIndexToDB
\* call that made it, 0 for a direct call
addToDB(w, name, obj, by) ==
  LET promise(st, err) == [by |-> by, name |-> name, st |-> st, err |-> err]
  IN IF w.db.st = "null"
     THEN [w EXCEPT !.adds = Append(@, promise("rejected", "NotInitialized"))]
     ELSE IF name \notin w.objectStores
     THEN [w EXCEPT !.adds = Append(@, promise("rejected", "CollectionMissing"))]
     ELSE IF transactionThrows(w.db, name)
     THEN [w EXCEPT !.adds = Append(@, promise("rejected", "TransactionFailed"))]
     ELSE [w EXCEPT !.adds = Append(@, promise("pending", "")),
                    !.queue = Append(@, AddReq(name, obj, Len(w.adds) + 1))]

\* this.objects.forEach((obj) => { this.db.addToDB(objectStoreName, obj); })
RECURSIVE addEach(_, _, _, _)
addEach(w, name, objs, by) ==
  IF objs = <<>> THEN w ELSE addEach(addToDB(w, name, Head(objs), by), name, Tail(objs), by)

\* the wrapper's variables after the calls that led to w
Becomes(w) ==
  /\ db' = w.db
  /\ objectStores' = w.objectStores
  /\ version' = w.version
  /\ queue' = w.queue
  /\ adds' = w.adds

SavePending == bridge.op = "save" /\ bridge.st = "pending"
LoadPending == bridge.op = "load" /\ bridge.st = "pending"

(***************************************************************************)
(* saveIndexToDB, the call (lines 187-194): an empty index rejects at      *)
(* once; otherwise initializeDB either finds this.db set and resolves, so  *)
(* that makeObjectStore runs in the same task, or opens the database.      *)
(***************************************************************************)
\* a test that finds no index empty
isEmptyNever(objs) == FALSE

\* !this.objects || this.objects.length === 0 (line 189)
isEmpty(objs) == Len(objs) = 0

saveIndexToDB(name) ==
  /\ bridge.st # "pending"
  /\ bridge.saves + bridge.loads < MaxCalls
  /\ UNCHANGED <<objects, keys, last, engVersion, engNames, engRecs, dcall, gen,
                 received, failures>>
  /\ IF isEmpty(objects)
     THEN /\ bridge' = [bridge EXCEPT !.op = "save", !.st = "rejected",
                                       !.err = "EmptyIndex", !.name = name]
          /\ UNCHANGED <<db, objectStores, version, queue, adds>>
     ELSE /\ bridge' = [bridge EXCEPT !.op = "save", !.st = "pending", !.err = "",
                                       !.name = name, !.saves = @ + 1,
                                       !.fresh = name \notin engNames,
                                       !.mem = objects]
          /\ IF db.st = "null"
             THEN Becomes([W EXCEPT !.queue = Append(@, OpenReq("initializeDB", NoName, version))])
             ELSE Becomes(createNewVersion(W, name))

\* a load that keeps what the index held
keepObjects(objs) == objs

\* this.objects = [] (line 210)
resetObjects(objs) == <<>>

\* this.objects.push(record) (line 214); n is the load that read the record
pushRecord(objs, record, n) == Append(objs, [record EXCEPT !.gen = n])

(***************************************************************************)
(* loadIndexFromDB, the call (lines 209-213), with dbGenerator up to its   *)
(* first await (lines 341-365): a throw inside the generator rejects the   *)
(* load.                                                                   *)
(***************************************************************************)
loadIndexFromDB(name) ==
  /\ bridge.st # "pending"
  /\ bridge.saves + bridge.loads < MaxCalls
  /\ objects' = resetObjects(objects)
  /\ UNCHANGED <<keys, last, db, objectStores, version, engVersion, engNames, engRecs,
                 adds, dcall, received, failures>>
  /\ LET call == [bridge EXCEPT !.op = "load", !.name = name, !.loads = @ + 1,
                                !.mem = objects,
                                !.pend = Cardinality({i \in 1..Len(adds) : adds[i].st = "pending"}),
                                !.prev = [op |-> bridge.op, st |-> bridge.st,
                                          name |-> bridge.name, fresh |-> bridge.fresh,
                                          saves |-> bridge.saves]]
     IN IF db.st = "null"
        THEN /\ bridge' = [call EXCEPT !.st = "rejected", !.err = "NotInitialized"]
             /\ gen' = [NoGen EXCEPT !.st = "thrown", !.consumer = "load", !.name = name,
                                     !.err = "NotInitialized"]
             /\ UNCHANGED queue
        ELSE IF transactionThrows(db, name)
        THEN /\ bridge' = [call EXCEPT !.st = "rejected", !.err = "TransactionFailed"]
             /\ gen' = [NoGen EXCEPT !.st = "thrown", !.consumer = "load", !.name = name,
                                     !.err = "TransactionFailed"]
             /\ UNCHANGED queue
        ELSE /\ bridge' = [call EXCEPT !.st = "pending", !.err = ""]
             /\ gen' = [NoGen EXCEPT !.st = "waiting", !.consumer = "load", !.name = name]
             /\ queue' = Append(queue, CursorReq(name))

(***************************************************************************)
(* The engine's events, each with the handler the code registered for it   *)
(* and the promise continuations that run before the next event.           *)
(***************************************************************************)
HeadIs(kind) == queue # <<>> /\ Head(queue).kind = kind

\* a test that finds no object store
containsNever(names, name) == FALSE

\* this.db.objectStoreNames.contains(name) (line 262)
contains(names, name) == name \in names

\* onupgradeneeded (lines 239-241 and 260-272); createObjectStore makes an
\* empty store
upgradeneeded ==
  /\ HeadIs("open")
  /\ Head(queue).phase = "new"
  /\ Head(queue).ver > engVersion
  /\ LET req == Head(queue)
         creates == req.owner = "createNewVersion" /\ ~contains(engNames, req.name)
     IN /\ engVersion' = req.ver
        /\ db' = Conn("upgrading", req.ver)
        /\ engNames' = IF creates THEN engNames \cup {req.name} ELSE engNames
        /\ objectStores' = IF creates THEN objectStores \cup {req.name} ELSE objectStores
        /\ queue' = [queue EXCEPT ![1] = [req EXCEPT !.phase = "upgraded",
                                                     !.prev = engVersion,
                                                     !.created = creates]]
        /\ engRecs' = IF creates THEN [engRecs EXCEPT ![req.name] = <<>>] ELSE engRecs
  /\ UNCHANGED <<objects, keys, last, version, adds, bridge, dcall, gen, received,
                 failures>>

\* a saveIndexToDB that issues its insertions right after calling
\* makeObjectStore, without waiting for it
afterOpenEager(w, owner, name, objs, by) ==
  IF owner = "initializeDB" THEN addEach(createNewVersion(w, name), name, objs, by) ELSE w

\* what saveIndexToDB chained on the promise that an open request settles:
\* after initializeDB, makeObjectStore (line 194); after makeObjectStore, the
\* insertions (lines 195-199)
afterOpen(w, owner, name, objs, by) ==
  IF owner = "initializeDB" THEN createNewVersion(w, name) ELSE addEach(w, name, objs, by)

\* onsuccess of an open request (lines 243-247 and 274-277), then what the
\* caller chained on the promise: saveIndexToDB goes on to makeObjectStore
\* (line 194) or to its insertions and resolve() (lines 195-201)
opensuccess ==
  /\ HeadIs("open")
  /\ Head(queue).phase = "upgraded" \/ Head(queue).ver = engVersion
  /\ LET req == Head(queue)
         opened == [W EXCEPT !.db = Conn("open", req.ver),
                             !.version = IF req.owner = "initializeDB" THEN req.ver ELSE @,
                             !.queue = Tail(@)]
     IN IF SavePending
        THEN /\ Becomes(afterOpen(opened, req.owner, bridge.name, objects, bridge.saves))
             /\ bridge' = IF req.owner = "initializeDB"
                          THEN bridge
                          ELSE [bridge EXCEPT !.st = "resolved"]
             /\ UNCHANGED dcall
        ELSE /\ Becomes(opened)
             /\ dcall' = [dcall EXCEPT !.st = "resolved"]
             /\ UNCHANGED bridge
  /\ UNCHANGED <<objects, keys, last, engVersion, engNames, engRecs, gen, received,
                 failures>>

\* onerror of an open request (lines 234-237 and 279-282): the engine denies
\* the open or aborts the upgrade, or the version asked for is below the
\* database's; an aborted upgrade is undone and its connection closed
openerror ==
  /\ HeadIs("open")
  /\ LET req == Head(queue)
         versionError == req.phase = "new" /\ req.ver < engVersion
     IN /\ versionError \/ failures < MaxFailures
        /\ failures' = IF versionError THEN failures ELSE failures + 1
        /\ IF req.phase = "upgraded"
           THEN /\ engVersion' = req.prev
                /\ engNames' = IF req.created THEN engNames \ {req.name} ELSE engNames
                /\ db' = Conn("closed", req.ver)
           ELSE UNCHANGED <<engVersion, engNames, db>>
        /\ IF SavePending
           THEN /\ bridge' = [bridge EXCEPT !.st = "rejected", !.err = "SaveFailed"]
                /\ UNCHANGED dcall
           ELSE /\ dcall' = [dcall EXCEPT !.st = "rejected", !.err = "OpenFailed"]
                /\ UNCHANGED bridge
  /\ queue' = Tail(queue)
  /\ UNCHANGED <<objects, keys, last, objectStores, version, engRecs, adds, gen,
                 received>>

\* onsuccess of an add request (lines 309-311): the record is stored under
\* the next key
addsuccess ==
  /\ HeadIs("add")
  /\ LET req == Head(queue)
     IN /\ engRecs' = [engRecs EXCEPT ![req.name] = Append(@, req.rec)]
        /\ adds' = [adds EXCEPT ![req.id].st = "resolved"]
  /\ queue' = Tail(queue)
  /\ UNCHANGED <<objects, keys, last, db, objectStores, version, engVersion, engNames,
                 bridge, dcall, gen, received, failures>>

\* onerror of an add request (lines 313-316): nothing is stored
adderror ==
  /\ HeadIs("add")
  /\ failures < MaxFailures
  /\ failures' = failures + 1
  /\ adds' = [adds EXCEPT ![Head(queue).id].st = "rejected",
                          ![Head(queue).id].err = "InsertFailed"]
  /\ queue' = Tail(queue)
  /\ UNCHANGED <<objects, keys, last, db, objectStores, version, engVersion, engNames,
                 engRecs, bridge, dcall, gen, received>>

\* onsuccess of the cursor request (lines 351-359): promiseResolver is the
\* resolver of the promise the generator made last.  When the generator is
\* awaiting it ("waiting"), the value reaches the generator, which yields it
\* (or returns, on null); loadIndexFromDB pushes it and asks for the next one
\* in the same task (lines 213-215), a direct consumer asks when it likes.
\* When the generator is suspended at its yield, that promise is already
\* settled and the call does nothing.  cursor.continue() follows either way.
cursorsuccess ==
  /\ HeadIs("cursor")
  /\ LET req == Head(queue)
         more == req.pos <= Len(engRecs[req.name])
         value == engRecs[req.name][req.pos]
         heard == gen.st = "waiting"
     IN /\ queue' = IF more THEN [queue EXCEPT ![1].pos = @ + 1] ELSE Tail(queue)
        /\ IF ~heard
           THEN UNCHANGED <<objects, gen, received, bridge>>
           ELSE IF more
           THEN IF gen.consumer = "load"
                THEN /\ objects' = pushRecord(objects, value, bridge.loads)
                     /\ UNCHANGED <<gen, received, bridge>>
                ELSE /\ received' = Append(received, value)
                     /\ gen' = [gen EXCEPT !.st = "yielded"]
                     /\ UNCHANGED <<objects, bridge>>
           ELSE /\ gen' = [gen EXCEPT !.st = "done"]
                /\ bridge' = IF gen.consumer = "load"
                             THEN [bridge EXCEPT !.st = "resolved"]
                             ELSE bridge
                /\ UNCHANGED <<objects, received>>
  /\ UNCHANGED <<keys, last, db, objectStores, version, engVersion, engNames, engRecs,
                 adds, dcall, failures>>

(***************************************************************************)
(* The index saved to and loaded from its own DynamicDB.  The index starts *)
(* as the constructor leaves it; the caller makes one save or load at a    *)
(* time and may go on as soon as the promise it holds is settled.          *)
(***************************************************************************)
BridgeObjs == {o \in ValidObjs : o.id # Undef /\ o.embedding = <<1, 0>>}

InitBridge ==
  \E initialObjects \in SeqsUpTo(BridgeObjs, MaxSaved) :
    /\ constructor(initialObjects).outcome = "ok"
    /\ objects = constructor(initialObjects).objects
    /\ keys = constructor(initialObjects).keys
    /\ last = NoCall
    /\ InitDB

NextBridge ==
  \/ \E name \in Names : saveIndexToDB(name)
  \/ \E name \in Names : loadIndexFromDB(name)
  \/ upgradeneeded
  \/ opensuccess
  \/ openerror
  \/ addsuccess
  \/ adderror
  \/ cursorsuccess

SpecBridge == InitBridge /\ [][NextBridge]_vars

(***************************************************************************)
(* The index with everything that changes it: the constructor, the         *)
(* synchronous operations, and saveIndexToDB / loadIndexFromDB on its own  *)
(* DynamicDB (a private field, line 69: only the index's saves write to    *)
(* it).  The synchronous operations may be called while a save or a load   *)
(* is under way.                                                           *)
(***************************************************************************)
\* the objects, filters and collection this specification is driven with: a
\* valid object with and without an id, and one with a NaN
IndexObjs ==
  {o \in AllObjs : \/ o.embedding = <<1, 0>> /\ o.id \in {"a", Undef}
                   \/ o.embedding = <<NaN, 0>> /\ o.id = "a"}
IndexFilters == {f \in Filters : f.id \in {"a", NoKey}}
IndexNames == {"A"}

\* the longest record sequence add and update are called on, and the number
\* of saveIndexToDB / loadIndexFromDB calls, in this specification
MaxIndexObjs == 2
MaxIndexCalls == 2

InitIndex ==
  \E initialObjects \in SeqsUpTo(IndexObjs, MaxIndexObjs) :
    /\ constructor(initialObjects).outcome = "ok"
    /\ objects = constructor(initialObjects).objects
    /\ keys = constructor(initialObjects).keys
    /\ last = NoCall
    /\ InitDB

NextIndex ==
  \/ \E obj \in IndexObjs : Len(objects) < MaxIndexObjs /\ add(obj)
  \/ \E filter \in IndexFilters, vector \in IndexObjs :
       Len(objects) < MaxIndexObjs /\ update(filter, vector)
  \/ \E filter \in IndexFilters : remove(filter)
  \/ \E filters \in SeqsUpTo(IndexFilters, MaxBatch) : removeBatch(filters)
  \/ \E name \in IndexNames :
       bridge.saves + bridge.loads < MaxIndexCalls /\ saveIndexToDB(name)
  \/ \E name \in IndexNames :
       bridge.saves + bridge.loads < MaxIndexCalls /\ loadIndexFromDB(name)
  \/ upgradeneeded
  \/ opensuccess
  \/ openerror
  \/ addsuccess
  \/ adderror
  \/ cursorsuccess

SpecIndex == InitIndex /\ [][NextIndex]_vars

(***************************************************************************)
(* A DynamicDB used directly (the class is exported): initializeDB,        *)
(* makeObjectStore and addToDB as the caller's calls, and dbGenerator read *)
(* by a consumer that asks for the next value when it likes, for instance  *)
(* a for-await loop whose body awaits something else.                      *)
(***************************************************************************)
\* addToDB calls made directly
MaxAdds == 2
\* the highest version makeObjectStore is driven to
MaxVersion == 3

\* initializeDB (lines 225-232)
initializeDB ==
  /\ dcall.st # "pending"
  /\ IF db.st # "null"
     THEN /\ dcall' = DCall("initializeDB", "resolved", "", NoName)
          /\ UNCHANGED queue
     ELSE /\ dcall' = DCall("initializeDB", "pending", "", NoName)
          /\ queue' = Append(queue, OpenReq("initializeDB", NoName, version))
  /\ UNCHANGED <<objects, keys, last, db, objectStores, version, engVersion, engNames,
                 engRecs, adds, bridge, gen, received, failures>>

\* makeObjectStore (lines 286-292) with createNewVersion up to its request
makeObjectStore(name) ==
  /\ dcall.st # "pending"
  /\ version < MaxVersion
  /\ IF db.st = "null"
     THEN /\ dcall' = DCall("makeObjectStore", "rejected", "NotInitialized", name)
          /\ UNCHANGED <<db, objectStores, version, queue, adds>>
     ELSE /\ dcall' = DCall("makeObjectStore", "pending", "", name)
          /\ Becomes(createNewVersion(W, name))
  /\ UNCHANGED <<objects, keys, last, engVersion, engNames, engRecs, bridge, gen,
                 received, failures>>

\* addToDB called directly (lines 293-307)
addToDBCall(name, obj) ==
  /\ Len(adds) < MaxAdds
  /\ Becomes(addToDB(W, name, obj, 0))
  /\ UNCHANGED <<objects, keys, last, engVersion, engNames, engRecs, bridge, dcall, gen,
                 received, failures>>

\* dbGenerator(name) and the consumer's first next(): the body runs up to its
\* first await (lines 341-365)
dbGenerator(name) ==
  /\ gen.st \in {"none", "done", "thrown"}
  /\ ~HeadIs("cursor")
  /\ received' = <<>>
  /\ IF db.st = "null"
     THEN /\ gen' = [st |-> "thrown", consumer |-> "direct", name |-> name,
                     err |-> "NotInitialized"]
          /\ UNCHANGED queue
     ELSE IF transactionThrows(db, name)
     THEN /\ gen' = [st |-> "thrown", consumer |-> "direct", name |-> name,
                     err |-> "TransactionFailed"]
          /\ UNCHANGED queue
     ELSE /\ gen' = [st |-> "waiting", consumer |-> "direct", name |-> name, err |-> ""]
          /\ queue' = Append(queue, CursorReq(name))
  /\ UNCHANGED <<objects, keys, last, db, objectStores, version, engVersion, engNames,
                 engRecs, adds, bridge, dcall, failures>>

\* the consumer's next next(): the generator leaves its yield, makes a new
\* promise, stores its resolver in promiseResolver and awaits (lines 362-367)
next ==
  /\ gen.st = "yielded"
  /\ gen' = [gen EXCEPT !.st = "waiting"]
  /\ UNCHANGED <<objects, keys, last, db, objectStores, version, engVersion, engNames,
                 engRecs, queue, adds, bridge, dcall, received, failures>>

InitStore ==
  /\ objects = <<>>
  /\ keys = {}
  /\ last = NoCall
  /\ InitDB

NextStore ==
  \/ initializeDB
  \/ \E name \in Names : makeObjectStore(name)
  \/ \E name \in Names, obj \in BridgeObjs : addToDBCall(name, obj)
  \/ \E name \in Names : dbGenerator(name)
  \/ next
  \/ upgradeneeded
  \/ opensuccess
  \/ openerror
  \/ addsuccess
  \/ adderror
  \/ cursorsuccess

SpecStore == InitStore /\ [][NextStore]_vars

(***************************************************************************)
(* Properties of the synchronous index operations (checked under Spec).    *)
(***************************************************************************)
\* the positions of objs that match filter
MatchSet(objs, filter) == {i \in 1..Len(objs) : Matches(objs[i], filter)}
Least(S) == CHOOSE i \in S : \A j \in S : i <= j

\* a get of filter f that came right after a successful add
GetAfterAdd ==
  /\ last.op = "get"
  /\ last.after.op = "add"
  /\ last.after.outcome = "ok"
  /\ Matches(last.after.arg, last.arg)

\* a get of filter f that came right after a successful remove of the same f
GetAfterRemove ==
  /\ last.op = "get"
  /\ last.after.op = "remove"
  /\ last.after.outcome = "ok"
  /\ last.after.arg = last.arg

\* C6: an update whose filter matches and whose new record is valid replaces
\* the first matching record at its position and changes nothing else: the
\* length is unchanged and every other position holds the record it held.
C6_UpdateReplacesInPlace ==
  [][last'.op = "update" =>
       \A filter \in Filters, vector \in AllObjs :
         ( /\ update(filter, vector)
           /\ findIndex(objects, filter) # 0
           /\ validateAndAdd(objects, keys, vector).outcome = "ok" )
         => /\ last'.outcome = "ok"
            /\ Len(objects') = Len(objects)
            /\ objects'[findIndex(objects, filter)] = vector
            /\ \A i \in 1..Len(objects) :
                 i # findIndex(objects, filter) => objects'[i] = objects[i]]_vars

\* C7 as stated: get(f) right after a successful add(r) returns r itself for
\* every filter f all of whose pairs match r.
C7_GetAfterAddReturnsAdded == GetAfterAdd => last.ret = last.after.arg

\* C7, amended: get(f) right after a successful add(r), f matching r, returns
\* the first record of the sequence that matches f (never null); r was
\* appended last, so the result is r itself when no record held before the
\* add matches f.
C7_GetAfterAddFirstMatch ==
  GetAfterAdd =>
    LET f == last.arg
        r == last.after.arg
        n == Len(objects)
    IN /\ n >= 1
       /\ objects[n] = r
       /\ last.ret # Null
       /\ \E i \in 1..n : /\ last.ret = objects[i]
                          /\ Matches(objects[i], f)
                          /\ \A j \in 1..(i - 1) : ~Matches(objects[j], f)
       /\ (\A j \in 1..(n - 1) : ~Matches(objects[j], f)) => last.ret = r

\* C7 witness: a get right after an add into a non-empty index that returned
\* the added record.
C7_Witness ==
  /\ GetAfterAdd
  /\ Len(objects) >= 2
  /\ last.arg.id # NoKey
  /\ last.ret = last.after.arg

\* C8 as stated: get(f) right after a successful remove(f) returns null.
C8_GetAfterRemoveIsNull == GetAfterRemove => last.ret = Null

\* C8, amended: a successful remove(f) removes only the first record matching
\* f, so get(f) right after it returns null exactly when that record was the
\* only one matching f; otherwise it returns the next matching record.
C8_GetAfterRemoveNextMatch ==
  [][(last'.op = "remove" /\ last'.outcome = "ok") =>
       LET f == last'.arg
           M == MatchSet(objects, f)
       IN /\ M # {}
          /\ Cardinality(M) = 1 => getResult(objects', f) = Null
          /\ Cardinality(M) > 1 =>
               /\ getResult(objects', f) # Null
               /\ getResult(objects', f) = objects[Least(M \ {Least(M)})]]_vars

\* C8 witness: a get right after a successful remove of the same filter that
\* still found a record.
C8_Witness ==
  /\ GetAfterRemove
  /\ last.ret # Null

\* removing the first record of s that matches f, written with SubSeq
RemoveFirstMatch(s, f) ==
  IF MatchSet(s, f) = {}
  THEN s
  ELSE SubSeq(s, 1, Least(MatchSet(s, f)) - 1)
         \o SubSeq(s, Least(MatchSet(s, f)) + 1, Len(s))

\* the sequence left by the first k filters of fs, processed in order
RECURSIVE InOrder(_, _, _)
InOrder(s, fs, k) ==
  IF k = 0 THEN s ELSE RemoveFirstMatch(InOrder(s, fs, k - 1), fs[k])

\* a is b with some positions dropped, the rest in b's order
IsSubsequence(a, b) ==
  \E pos \in [1..Len(a) -> 1..Len(b)] :
    /\ \A i \in 1..Len(a) : a[i] = b[pos[i]]
    /\ \A i, j \in 1..Len(a) : i < j => pos[i] < pos[j]

\* C10: removeBatch never fails; its effect is that of taking the filters in
\* order and removing, for each, the first record of the current sequence
\* that matches it, or nothing; the records left keep their relative order.
C10_RemoveBatchInOrder ==
  [][last'.op = "removeBatch" =>
       /\ last'.outcome = "ok"
       /\ objects' = InOrder(objects, last'.arg, Len(last'.arg))
       /\ IsSubsequence(objects', objects)
       /\ keys' = keys]_vars

\* C10 witness: a batch of two filters of which one removed a record and the
\* other matched nothing.
C10_Witness ==
  /\ last.op = "removeBatch"
  /\ Len(last.arg) = 2
  /\ last.before = 3
  /\ Len(objects) = 2

(***************************************************************************)
(* Properties of search (checked under SpecSearch).                        *)
(***************************************************************************)
MinOf(a, b) == IF a < b THEN a ELSE b

\* the topK the caller asked for: the number given, 3 when none was given
AskedTopK(options) == IF options.given THEN options.topK ELSE DefaultTopK

\* every entry of ret is a record of objs that matches filter, with its
\* similarity to q, no position of objs serving twice
RefersToDistinctMatches(ret, objs, q, filter) ==
  \E pos \in [1..Len(ret) -> 1..Len(objs)] :
    /\ \A i, j \in 1..Len(ret) : i # j => pos[i] # pos[j]
    /\ \A i \in 1..Len(ret) :
         /\ ret[i].object = objs[pos[i]]
         /\ Matches(objs[pos[i]], filter)
         /\ ret[i].similarity = cosineSimilarity(q, objs[pos[i]].embedding)

SortedDesc(ret) ==
  \A i, j \in 1..Len(ret) : i < j => ret[i].similarity >= ret[j].similarity

\* C9: search(q, {topK: k, filter}) returns, for every k >= 0, exactly
\* min(k, number of matching records) entries, sorted by non-increasing
\* similarity, each a distinct matching record; 3 is used only when no topK
\* is given.
C9_SearchLengthIsMinTopK ==
  (last.op = "search" /\ last.outcome = "ok") =>
    LET o == last.arg.options
    IN /\ Len(last.ret) = MinOf(AskedTopK(o), Cardinality(MatchSet(objects, o.filter)))
       /\ SortedDesc(last.ret)
       /\ RefersToDistinctMatches(last.ret, objects, last.arg.q, o.filter)

(***************************************************************************)
(* Properties of saveIndexToDB and loadIndexFromDB (checked under          *)
(* SpecBridge).                                                            *)
(***************************************************************************)
\* the insertions the latest saveIndexToDB call issued
ItsInsertions == {i \in 1..Len(adds) : adds[i].by = bridge.saves}

SaveResolved == bridge.op = "save" /\ bridge.st = "resolved"
LoadResolved == bridge.op = "load" /\ bridge.st = "resolved"

Range(f) == {f[i] : i \in DOMAIN f}

\* how often value v occurs among the stored values of objs
Count(objs, v) == Cardinality({i \in 1..Len(objs) : Plain(objs[i]) = v})

\* C1: the promise of a saveIndexToDB call on a non-empty index is not
\* resolved while one of the insertions it issued is still pending.
C1_SaveResolvesAfterInsertions ==
  SaveResolved => \A i \in ItsInsertions : adds[i].st # "pending"

\* C2: a saveIndexToDB call one of whose insertions was rejected is never
\* resolved.
C2_FailedInsertionRejectsSave ==
  (bridge.op = "save" /\ \E i \in ItsInsertions : adds[i].st = "rejected")
    => bridge.st # "resolved"

\* the latest call is a load that resolved, made right after a resolved save
\* of the index to the same collection, which did not exist before that save
LoadedAfterFreshSave ==
  /\ LoadResolved
  /\ bridge.prev.op = "save"
  /\ bridge.prev.st = "resolved"
  /\ bridge.prev.name = bridge.name
  /\ bridge.prev.fresh

\* C3: round trip.  An index of N >= 1 records saved to a collection that
\* did not exist, then loaded from it once the save has resolved, holds
\* exactly N records, equal as a multiset of field-value mappings to the
\* ones saved (bridge.mem: what the index held when the load was called).
C3_RoundTrip ==
  LoadedAfterFreshSave =>
    /\ Len(bridge.mem) >= 1
    /\ Len(objects) = Len(bridge.mem)
    /\ \A v \in Range(bridge.mem) \cup Range(objects) :
         Count(objects, Plain(v)) = Count(bridge.mem, Plain(v))

\* C5: when a loadIndexFromDB call has completed, the index holds exactly
\* the records persisted in the collection, in key order, and none of the
\* objects it held before the call.
C5_LoadReplacesWithPersisted ==
  LoadResolved =>
    /\ Len(objects) = Len(engRecs[bridge.name])
    /\ \A i \in 1..Len(objects) : Plain(objects[i]) = engRecs[bridge.name][i]
    /\ \A i \in 1..Len(objects) : objects[i] \notin Range(bridge.mem)

\* C5 witness: a completed load, called while insertions were still pending,
\* of at least two records into an index that held records.
C5_Witness ==
  /\ LoadResolved
  /\ bridge.pend > 0
  /\ Len(objects) >= 2
  /\ bridge.mem # <<>>

(***************************************************************************)
(* Properties of dbGenerator read by a direct consumer (checked under      *)
(* SpecStore).                                                             *)
(***************************************************************************)
\* C4: whatever the interleaving of the cursor's success events with the
\* consumer's pulls, when the cursor reports the end of the collection the
\* generator terminates and the consumer has been handed every persisted
\* record exactly once, in key order.
C4_GeneratorYieldsAllThenEnds ==
  [][(HeadIs("cursor") /\ gen.consumer = "direct" /\ queue' = Tail(queue)) =>
       /\ gen'.st = "done"
       /\ received' = engRecs[Head(queue).name]]_vars

(***************************************************************************)
(* Errors of the synchronous index operations (checked under Spec).        *)
(***************************************************************************)
\* the embedding is missing, is not an array, or holds a NaN
InvalidEmbedding(obj) == ~obj.arr \/ NaN \in {obj.embedding[i] : i \in 1..Len(obj.embedding)}
\* the object lacks a property the schema names
LacksField(ks, obj) == \E key \in ks : key \notin ObjectKeys(obj)

\* C11: add(record) fails with InvalidEmbedding when the embedding is missing,
\* not a sequence or holds NaN; otherwise with SchemaMismatch when the record
\* lacks a field of the established schema; otherwise (extra fields or not) it
\* succeeds and the record is the new last element.  A failed add leaves the
\* record sequence and the schema unchanged.
C11_AddValidates ==
  [][last'.op = "add" =>
       LET obj == last'.arg
       IN /\ InvalidEmbedding(obj) => last'.outcome = "InvalidEmbedding"
          /\ (~InvalidEmbedding(obj) /\ LacksField(keys, obj)) =>
               last'.outcome = "SchemaMismatch"
          /\ (~InvalidEmbedding(obj) /\ ~LacksField(keys, obj)) =>
               /\ last'.outcome = "ok"
               /\ objects' = objects \o <<obj>>
               /\ keys' = IF keys = {} THEN ObjectKeys(obj) ELSE keys
          /\ last'.outcome # "ok" => objects' = objects /\ keys' = keys]_vars

\* a record with a field the schema does not name was added to a non-empty index
C11_Witness ==
  /\ last.op = "add"
  /\ last.outcome = "ok"
  /\ ObjectKeys(last.arg) # keys
  /\ Len(objects) >= 2
  /\ objects[Len(objects)] = last.arg

\* no record matches every key/value pair of the filter
NoMatch(objs, filter) == \A i \in 1..Len(objs) : ~Matches(objs[i], filter)

\* C12: remove(filter) and update(filter, newRecord) fail with NotFound when
\* no record matches the filter; with a match, update fails with the
\* validation error of add when newRecord is invalid.  Every failing remove or
\* update leaves the record sequence and the schema as they were.
C12_FailuresChangeNothing ==
  [][/\ last'.op = "remove" =>
          /\ NoMatch(objects, last'.arg) <=> last'.outcome = "NotFound"
          /\ last'.outcome # "ok" => objects' = objects /\ keys' = keys
     /\ last'.op = "update" =>
          LET filter == last'.arg[1]
              vector == last'.arg[2]
          IN /\ NoMatch(objects, filter) <=> last'.outcome = "NotFound"
             /\ (~NoMatch(objects, filter) /\ InvalidEmbedding(vector)) =>
                  last'.outcome = "InvalidEmbedding"
             /\ (~NoMatch(objects, filter) /\ ~InvalidEmbedding(vector)
                   /\ LacksField(keys, vector)) =>
                  last'.outcome = "SchemaMismatch"
             /\ last'.outcome # "ok" => objects' = objects /\ keys' = keys]_vars

\* an update found its record and failed on the new record's missing field
C12_Witness ==
  /\ last.op = "update"
  /\ last.outcome = "SchemaMismatch"
  /\ ~NoMatch(objects, last.arg[1])
  /\ LacksField(keys, last.arg[2])

IsPrefix(a, b) == Len(a) <= Len(b) /\ \A i \in 1..Len(a) : a[i] = b[i]

\* a makeObjectStore call for a collection the database already had
MakeAgain == dcall.op = "makeObjectStore" /\ dcall.existed
\* the step settles the pending direct call
Resolves == dcall.st = "pending" /\ dcall'.st = "resolved"
Rejects == dcall.st = "pending" /\ dcall'.st = "rejected"
\* the step is an addToDB call
AddCalled == Len(adds') = Len(adds) + 1

\* C14: makeObjectStore(name) for a collection that already exists is a
\* no-op on the collections: while it runs and when it resolves the database
\* has the one collection of that name with every record it held; the call is
\* rejected only when the engine fails the reopen; once it has resolved, the
\* store is open and an addToDB to the collection is accepted.
C14_MakeObjectStoreIdempotent ==
  [][/\ (MakeAgain /\ dcall.st = "pending") =>
          /\ dcall.name \in engNames'
          /\ IsPrefix(engRecs[dcall.name], engRecs'[dcall.name])
     /\ (MakeAgain /\ Resolves) =>
          /\ db'.st = "open"
          /\ dcall.name \in objectStores'
     /\ (MakeAgain /\ Rejects) => failures' = failures + 1
     /\ (MakeAgain /\ dcall.st = "resolved" /\ AddCalled
           /\ adds'[Len(adds')].name = dcall.name) =>
          adds'[Len(adds')].st = "pending"]_vars

\* makeObjectStore was called again for a collection that held a record, it
\* has resolved, and a record added after it is stored behind the old one
C14_Witness ==
  /\ MakeAgain
  /\ dcall.st = "resolved"
  /\ Len(adds) = 2
  /\ adds[2].st = "resolved"
  /\ adds[2].name = dcall.name
  /\ Len(engRecs[dcall.name]) = 2
  /\ version = 3

\* C15: addToDB(collection, record) is rejected with NotInitialized when the
\* store is not open, and with CollectionMissing exactly when the store is
\* open and the database has no collection of that name; when the store is
\* open and the collection exists the insertion is issued, and its success
\* puts exactly one more record, the new last one, into the collection.
C15_AddToDBErrors ==
  [][/\ AddCalled =>
          LET call == adds'[Len(adds')]
              open == db.st = "open"
              exists == call.name \in engNames
          IN /\ ~open => (call.st = "rejected" /\ call.err = "NotInitialized")
             /\ (open /\ ~exists) <=> (call.st = "rejected" /\ call.err = "CollectionMissing")
             /\ (open /\ exists) => call.st = "pending"
     /\ (HeadIs("add") /\ adds'[Head(queue).id].st = "resolved") =>
          engRecs' = [engRecs EXCEPT ![Head(queue).name] = Append(@, Head(queue).rec)]]_vars

(***************************************************************************)
(* More properties of saveIndexToDB (checked under SpecBridge).            *)
(***************************************************************************)
\* the step is a saveIndexToDB call
SaveCalled ==
  /\ bridge.st # "pending"
  /\ bridge' # bridge
  /\ bridge'.op = "save"
  /\ bridge'.loads = bridge.loads

\* C16: saveIndexToDB on an index with zero records rejects with EmptyIndex
\* and does nothing to the store: no open request, no version change, no
\* collection created, no insertion.
C16_EmptyIndexRejects ==
  [][(SaveCalled /\ Len(objects) = 0) =>
       /\ bridge'.st = "rejected"
       /\ bridge'.err = "EmptyIndex"
       /\ UNCHANGED <<objects, db, objectStores, version, engVersion, engNames, engRecs,
                      queue, adds>>]_vars

\* a save of an empty index was rejected, on a store that was never opened
C16_Witness ==
  /\ bridge.op = "save"
  /\ bridge.st = "rejected"
  /\ bridge.err = "EmptyIndex"
  /\ Len(objects) = 0
  /\ db = NoDb
  /\ engVersion = 0
  /\ queue = <<>>

\* the insertions still outstanding among those the save numbered b issued
Outstanding(b) == {i \in 1..Len(adds) : adds[i].by = b /\ adds[i].st = "pending"}

\* C17: within one saveIndexToDB call each insertion is awaited before the
\* next one is issued: at no time are two insertions of the same call
\* outstanding.
C17_OneInsertionAtATime ==
  \A b \in 1..bridge.saves : Cardinality(Outstanding(b)) <= 1

\* the step issues insertions
InsertionsIssued == Len(adds') > Len(adds)

\* C18: within saveIndexToDB no insertion is issued before the reopen that
\* makeObjectStore started has completed: when the insertions are issued the
\* store is open at the new version, no open request is outstanding, the
\* database has the target collection, and every insertion is accepted.
C18_InsertAfterUpgrade ==
  [][InsertionsIssued =>
       /\ db'.st = "open"
       /\ db'.ver = version'
       /\ engVersion' = version'
       /\ version' = version
       /\ \A i \in 1..Len(queue') : queue'[i].kind # "open"
       /\ bridge.name \in engNames'
       /\ \A i \in (Len(adds) + 1)..Len(adds') : adds'[i].st = "pending"]_vars

\* a save has issued two insertions, behind its reopen at a higher version
C18_Witness ==
  /\ bridge.op = "save"
  /\ Cardinality(ItsInsertions) = 2
  /\ version >= 2
  /\ db = Conn("open", version)
  /\ HeadIs("add")

(***************************************************************************)
(* The version and the connection of a DynamicDB used directly (checked    *)
(* under SpecStore).                                                       *)
(***************************************************************************)
\* the step is a makeObjectStore call
MakeCalled == dcall.st # "pending" /\ dcall' # dcall /\ dcall'.op = "makeObjectStore"

\* C19: version never decreases; a makeObjectStore call made on an open store
\* that resolves leaves the store open at the version it found plus one,
\* whether or not the collection existed; a makeObjectStore call on a store
\* that is not open is rejected with NotInitialized and changes neither the
\* version nor the collections.
C19_VersionMonotonic ==
  [][/\ version' >= version
     /\ (dcall.op = "makeObjectStore" /\ dcall.live /\ Resolves) =>
          /\ db' = Conn("open", dcall.was + 1)
          /\ version' = dcall.was + 1
          /\ engVersion' = dcall.was + 1
     /\ (MakeCalled /\ db.st # "open") =>
          /\ dcall'.st = "rejected"
          /\ dcall'.err = "NotInitialized"
          /\ version' = version
          /\ engNames' = engNames
          /\ objectStores' = objectStores]_vars

\* the step settles the open request at the head of the queue
OpenSettled == HeadIs("open") /\ queue' = Tail(queue)
\* the step reports a direct call as done: at once, or by settling it
ReportsDone == dcall'.st = "resolved" /\ dcall' # dcall

\* C20: an open or upgrade that fails rejects the pending initializeDB or
\* makeObjectStore call, and whenever such a call resolves, at the first
\* attempt or at a retry after a failure, the store is open: it is never
\* reported done on a connection that is closed.
C20_FailedOpenCanBeRetried ==
  [][/\ (OpenSettled /\ dcall.st = "pending" /\ db'.st # "open") => dcall'.st = "rejected"
     /\ ReportsDone => db'.st = "open"]_vars

=============================================================================
